---- MODULE Spec2Model ----
(***************************************************************************)
(* The IPC session engine of discord-ipc (class DiscordIPC, src/index.js). *)
(*                                                                         *)
(* JavaScript runs one task at a time: an action of this module is one     *)
(* macrotask (a caller's API call, a socket event, a timer callback)       *)
(* together with every promise continuation (microtask) it makes runnable. *)
(* The engine's fields are gathered in a record S that the operators       *)
(* named after the methods transform; an action applies them to the        *)
(* current fields and commits the result.                                  *)
(*                                                                         *)
(* The remote end is the environment: it answers only commands it has      *)
(* received on a connection on which the handshake frame has arrived; its *)
(* answers are JSON objects {cmd, nonce, evt?, data?}.                     *)
(***************************************************************************)
EXTENDS Integers, Sequences, FiniteSets, TLC

\* ---- bounds of the model ------------------------------------------------
MaxPending == 1        \* sendCommand calls in progress at a time
MaxQueue == 2          \* entries a caller's call may add to messageQueue
MaxConnecting == 1     \* connect() calls in flight per kind of caller
MaxAttempts == 2       \* the maxReconnectAttempts option

MaxReceive == 2        \* receive() calls whose timer is armed
MaxRacing == 2         \* connect() calls in progress, LifecycleSpec
MaxOpened == 3         \* connections opened in a behaviour, LifecycleSpec
MaxBackoff == 8        \* scheduleReconnect calls in a row

\* The nonces createNonce may return and the connections the remote end may
\* accept in one behaviour.
Nonces == {1, 2}
Sockets == {1, 2}

\* ---- program constants --------------------------------------------------
DefaultReconnectDelay == 5000   \* options.reconnectDelay || 5000
MaxDelay == 30000               \* the cap of the backoff, in ms

\* ---- input domains ------------------------------------------------------
\* values of options.reconnectDelay
ReconnectDelays == {1, 1000, DefaultReconnectDelay, MaxDelay, 45000}
NoActivity == "null"
Activities == {"A1", "A2"}
NoClientId == "undefined"
ClientIds == {"cid"}
\* data.message of an ERROR response
ErrorMessages == {"Some error", "Invalid Client ID"}
\* An ERROR response that carries no data object.
NoData == "undefined"
ResponseKinds == {"OK", NoData} \cup ErrorMessages

\* ---- errors -------------------------------------------------------------
NoErr == [kind |-> "none", info |-> "none"]
NotConnectedError == [kind |-> "Error", info |-> "Not connected to Discord"]
TimeoutError(cmd) == [kind |-> "Timeout", info |-> cmd]
RemoteError(msg) == [kind |-> "Error", info |-> msg]
ClientIdRequired == [kind |-> "Error", info |-> "Client ID is required"]
ConnectFailed == [kind |-> "Error", info |-> "Could not connect to Discord"]
ReceiveTimeoutError == [kind |-> "Error", info |-> "Receive timeout"]
\* An exception that no caller and no catch block takes.
Uncaught(what) == [kind |-> "uncaught", info |-> what]
InvalidClientIdError == [kind |-> "Error", info |-> "Invalid Client ID: <clientId>"]

VARIABLES
    clientId,           \* options.clientId
    autoReconnect,      \* this.autoReconnect
    maxReconnectAttempts, \* this.maxReconnectAttempts
    reconnectDelay,     \* this.reconnectDelay
    delay,              \* delay of the reconnect timer armed last, 0 if none
    connected,          \* this.connected
    authenticated,      \* this.authenticated
    reconnectAttempts,  \* this.reconnectAttempts
    currentActivity,    \* this.currentActivity
    messageQueue,       \* this.messageQueue, a sequence of <<opcode, data>>
    pendingResponses,   \* keys of this.pendingResponses
    heartbeatInterval,  \* this.heartbeatInterval is non-null
    socket,             \* this.socket: index into socks, 0 for null
    socks,              \* every connection established so far
    reqs,               \* every sendCommand call so far, indexed by nonce
    connecting,         \* connect() calls awaiting tryConnect, per caller
    reconnectTimers,    \* reconnect timers armed by scheduleReconnect
    spinning,           \* processQueue is in a loop that cannot end
    closedAuthenticated, \* history: authenticated held when the close that
                        \* scheduled the outstanding retry was handled
    op,                 \* the task that produced this state
    emitted,            \* notifications emitted by that task, in order
    wrote,              \* frames written to sockets by that task, in order
    raised,             \* the error that task threw to its caller
    received,           \* the inbound message that task handled, if any
    receiveTimers,      \* armed 5 s timers of receive() calls
    limits,             \* the bounds of the behaviour
    sent,               \* byte level: the (opcode, data) pairs written
    wire,               \* byte level: bytes written and not yet delivered
    buffer,             \* byte level: the buffer of the 'data' handler
    frames              \* byte level: the frames handed to handleMessage

engine == <<clientId, autoReconnect, maxReconnectAttempts, reconnectDelay,
            delay, connected, authenticated, reconnectAttempts,
            currentActivity, messageQueue, pendingResponses,
            heartbeatInterval, socket, socks, reqs, connecting,
            reconnectTimers, spinning, closedAuthenticated, op, emitted,
            wrote, raised, received, receiveTimers, limits>>
bytes == <<sent, wire, buffer, frames>>
vars == <<engine, bytes>>

Cur ==
    [clientId |-> clientId, autoReconnect |-> autoReconnect,
     maxReconnectAttempts |-> maxReconnectAttempts,
     reconnectDelay |-> reconnectDelay, delay |-> delay,
     connected |-> connected, authenticated |-> authenticated,
     reconnectAttempts |-> reconnectAttempts,
     currentActivity |-> currentActivity, messageQueue |-> messageQueue,
     pendingResponses |-> pendingResponses,
     heartbeatInterval |-> heartbeatInterval, socket |-> socket,
     socks |-> socks, reqs |-> reqs, connecting |-> connecting,
     reconnectTimers |-> reconnectTimers, spinning |-> spinning,
     closedAuthenticated |-> closedAuthenticated,
     op |-> op, emitted |-> emitted, wrote |-> wrote, raised |-> raised,
     received |-> received, receiveTimers |-> receiveTimers,
     limits |-> limits]

Commit(S) ==
    /\ clientId' = S.clientId
    /\ autoReconnect' = S.autoReconnect
    /\ maxReconnectAttempts' = S.maxReconnectAttempts
    /\ reconnectDelay' = S.reconnectDelay
    /\ delay' = IF S.reconnectTimers > 0 THEN S.delay ELSE 0
    /\ connected' = S.connected
    /\ authenticated' = S.authenticated
    /\ reconnectAttempts' = S.reconnectAttempts
    /\ currentActivity' = S.currentActivity
    /\ messageQueue' = S.messageQueue
    /\ pendingResponses' = S.pendingResponses
    /\ heartbeatInterval' = S.heartbeatInterval
    /\ socket' = S.socket
    /\ socks' = S.socks
    /\ reqs' = S.reqs
    /\ connecting' = S.connecting
    /\ reconnectTimers' = S.reconnectTimers
    /\ spinning' = S.spinning
    /\ closedAuthenticated' = (/\ S.closedAuthenticated
                                /\ S.reconnectTimers + S.connecting.reconnect > 0)
    /\ op' = S.op
    /\ emitted' = S.emitted
    /\ wrote' = S.wrote
    /\ raised' = S.raised
    /\ received' = S.received
    /\ receiveTimers' = S.receiveTimers
    /\ limits' = S.limits
    /\ UNCHANGED bytes

\* The start of a task: the logs of the previous task are dropped.
Done(q) ==
    [cmd |-> "done", act |-> NoActivity, owner |-> "done", chain |-> FALSE,
     timer |-> FALSE, by |-> "done", err |-> NoErr, sentOn |-> q.sentOn,
     respRan |-> FALSE, timeoutRan |-> FALSE, call |-> "done"]

\* A call whose handler threw: nothing is left that could settle it.
Hung(q) ==
    [cmd |-> "done", act |-> NoActivity, owner |-> "done", chain |-> FALSE,
     timer |-> FALSE, by |-> "none", err |-> NoErr, sentOn |-> q.sentOn,
     respRan |-> FALSE, timeoutRan |-> FALSE, call |-> "pending"]

Forget(S) ==
    [S EXCEPT !.reqs = [r \in DOMAIN @ |->
                          IF @[r].by # "none" /\ ~@[r].timer
                          THEN Done(@[r])
                          ELSE IF @[r].by = "none" /\ ~@[r].timer
                          THEN Hung(@[r])
                          ELSE @[r]]]

NoMessage == [cmd |-> "none", nonce |-> 0, evt |-> "none", data |-> NoData]

Task(name, r) ==
    [Forget(Cur) EXCEPT !.op = [name |-> name, r |-> r],
                        !.emitted = <<>>, !.wrote = <<>>, !.raised = NoErr,
                        !.received = NoMessage]

\* ---- frames and notifications ------------------------------------------
HandshakeData(S) == [cmd |-> "HANDSHAKE", nonce |-> 0, act |-> S.clientId]
CommandData(cmd, nonce, act) == [cmd |-> cmd, nonce |-> nonce, act |-> act]
RawData == [cmd |-> "RAW", nonce |-> 0, act |-> NoActivity]
\* Data that JSON.stringify rejects (an object that contains itself).
CyclicData == [cmd |-> "CYCLIC", nonce |-> 0, act |-> NoActivity]
StringifyError ==
    [kind |-> "TypeError", info |-> "Converting circular structure to JSON"]

emit(S, ev, n, arg) ==
    [S EXCEPT !.emitted = Append(@, [ev |-> ev, n |-> n, arg |-> arg])]

\* ---- send ---------------------------------------------------------------
\* this.socket.write(header + payload): the frame reaches the remote end of
\* the current socket, which from then on knows the handshake / the nonce.
socketWrite(S, opcode, data) ==
    LET S1 == [S EXCEPT !.wrote = Append(@, [sock |-> S.socket,
                                              opcode |-> opcode,
                                              data |-> data])]
        S2 == IF opcode = 0
              THEN [S1 EXCEPT !.socks[S.socket].hs = TRUE]
              ELSE S1
    IN  IF data.nonce # 0
        THEN [S2 EXCEPT !.reqs[data.nonce].sentOn = S.socket]
        ELSE S2

sendQueuesAlways(S, opcode, data) ==
    IF ~S.connected
    THEN [S EXCEPT !.messageQueue = Append(@, <<opcode, data>>)]
    ELSE socketWrite(S, opcode, data)

sendQueuesAtHead(S, opcode, data) ==
    IF ~S.connected
    THEN IF S.autoReconnect
         THEN [S EXCEPT !.messageQueue = <<(<<opcode, data>>)>> \o @]
         ELSE [S EXCEPT !.raised = NotConnectedError]
    ELSE socketWrite(S, opcode, data)

\* JSON.stringify(data) is evaluated after the connected test and before
\* the write: data it rejects makes send() throw with nothing written.
send(S, opcode, data) ==
    IF ~S.connected
    THEN IF S.autoReconnect
         THEN [S EXCEPT !.messageQueue = Append(@, <<opcode, data>>)]
         ELSE [S EXCEPT !.raised = NotConnectedError]
    ELSE IF data = CyclicData
    THEN [S EXCEPT !.raised = StringifyError]
    ELSE socketWrite(S, opcode, data)


\* ---- the promise of a sendCommand call ---------------------------------
\* by: what settled the promise ("none" while it is pending); a promise is
\* settled once, later calls of resolve/reject have no effect.
\* timer: the setTimeout of the call is armed.  respRan / timeoutRan: the
\* response handler stored in pendingResponses / the timeout callback ran.
\* call: the outcome of the API call that awaits the promise.
NewReq(cmd, act, owner, chain) ==
    [cmd |-> cmd, act |-> act, owner |-> owner, chain |-> chain,
     timer |-> TRUE, by |-> "none", err |-> NoErr, sentOn |-> 0,
     respRan |-> FALSE, timeoutRan |-> FALSE, call |-> "pending"]

Pending(q) == q.by = "none"

resolve(S, r) ==
    IF Pending(S.reqs[r])
    THEN [S EXCEPT !.reqs[r].by = "response"]
    ELSE S

reject(S, r, by, err) ==
    IF Pending(S.reqs[r])
    THEN [S EXCEPT !.reqs[r].by = by, !.reqs[r].err = err]
    ELSE S

\* ---- sendCommand --------------------------------------------------------
\* The promise executor: arm the timer, store the handler, send.  An error
\* thrown by send() inside the executor rejects the promise; the timer and
\* the stored handler stay.
sendCommand(S, cmd, act, owner, chain) ==
    LET r == Len(S.reqs) + 1
        S1 == [S EXCEPT !.reqs = Append(@, NewReq(cmd, act, owner, chain)),
                        !.pendingResponses = @ \cup {r}]
        S2 == send(S1, 1, CommandData(cmd, r, act))
    IN  IF S2.raised # NoErr
        THEN reject([S2 EXCEPT !.raised = NoErr], r, "send", S2.raised)
        ELSE S2

\* ---- processQueue -------------------------------------------------------
\* while (queue.length > 0) { [opcode, data] = queue.shift(); send(...) }
\* Disconnected with autoReconnect on, send() appends the entry again: the
\* loop never ends and no other task ever runs (spinning).
processQueueStep(S) ==
    LET e == Head(S.messageQueue)
    IN  send([S EXCEPT !.messageQueue = Tail(@)], e[1], e[2])

RECURSIVE processQueueNewestFirst(_)
processQueueNewestFirst(S) ==
    IF S.messageQueue = <<>> THEN S
    ELSE IF ~S.connected /\ S.autoReconnect THEN [S EXCEPT !.spinning = TRUE]
    ELSE LET n == Len(S.messageQueue)
             e == S.messageQueue[n]
             S1 == send([S EXCEPT !.messageQueue = SubSeq(@, 1, n - 1)],
                        e[1], e[2])
         IN  IF S1.raised # NoErr THEN S1 ELSE processQueueNewestFirst(S1)

RECURSIVE processQueue(_)
processQueue(S) ==
    IF S.messageQueue = <<>> THEN S
    ELSE IF ~S.connected /\ S.autoReconnect THEN [S EXCEPT !.spinning = TRUE]
    ELSE LET S1 == processQueueStep(S)
         IN  IF S1.raised # NoErr THEN S1 ELSE processQueue(S1)

\* ---- continuations of the callers awaiting a sendCommand promise --------
Returned(S, r) == [S EXCEPT !.reqs[r].call = "ok"]
\* In the reconnect chain the catch block of scheduleReconnect takes the
\* error; elsewhere it reaches the caller.
Threw(S, r, err) ==
    [S EXCEPT !.reqs[r].call = "raised",
              !.raised = IF S.reqs[r].chain THEN @ ELSE err]

\* sendCommand itself (subscribe, getUser, ...), setActivity, clearActivity
resumeCommand(S, r) ==
    LET q == S.reqs[r]
    IN  IF q.by # "response" THEN Threw(S, r, q.err)
        ELSE IF q.owner = "setActivity"
        THEN Returned(emit([S EXCEPT !.currentActivity = q.act],
                           "activitySet", 0, q.act), r)
        ELSE Returned(S, r)

setActivity(S, activity, chain) ==
    LET S1 == sendCommand(S, "SET_ACTIVITY", activity, "setActivity", chain)
        r == Len(S1.reqs)
    IN  IF Pending(S1.reqs[r]) THEN S1 ELSE resumeCommand(S1, r)

IsClientIdError(err) == err.info \in {"Invalid Client ID", "Unknown Application"}

authenticateResumeSwallowsAll(S, r) ==
    LET q == S.reqs[r]
        S1 == emit([S EXCEPT !.authenticated = TRUE],
                   "authenticated", 0, NoActivity)
        S2 == processQueue(S1)
    IN  IF S2.spinning THEN S2
        ELSE IF S2.raised # NoErr
        THEN Threw([S2 EXCEPT !.raised = NoErr], r, S2.raised)
        ELSE IF q.chain /\ S2.currentActivity # NoActivity
        THEN setActivity(Returned(S2, r), S2.currentActivity, TRUE)
        ELSE Returned(S2, r)

\* authenticate() after its await: the catch block of the no-token branch,
\* then authenticated = true, emit, processQueue; in the reconnect chain
\* the resubmission of the activity follows.
authenticateResume(S, r) ==
    LET q == S.reqs[r]
        rejected == q.by # "response"
    IN  IF rejected /\ q.owner = "authenticateToken" THEN Threw(S, r, q.err)
        ELSE IF rejected /\ IsClientIdError(q.err)
        THEN Threw(S, r, InvalidClientIdError)
        ELSE LET S1 == emit([S EXCEPT !.authenticated = TRUE],
                            "authenticated", 0, NoActivity)
                 S2 == processQueue(S1)
             IN  IF S2.spinning THEN S2
                 ELSE IF S2.raised # NoErr
                 THEN Threw([S2 EXCEPT !.raised = NoErr], r, S2.raised)
                 ELSE IF q.chain /\ S2.currentActivity # NoActivity
                 THEN setActivity(Returned(S2, r), S2.currentActivity, TRUE)
                 ELSE Returned(S2, r)

resume(S, r) ==
    IF S.reqs[r].owner \in {"authenticate", "authenticateToken"}
    THEN authenticateResume(S, r)
    ELSE resumeCommand(S, r)

authenticate(S, token, chain) ==
    LET S1 == IF token
              THEN sendCommand(S, "AUTHENTICATE", NoActivity,
                               "authenticateToken", chain)
              ELSE sendCommand(S, "AUTHORIZE", NoActivity,
                               "authenticate", chain)
        r == Len(S1.reqs)
    IN  IF Pending(S1.reqs[r]) THEN S1 ELSE authenticateResume(S1, r)

command(S, cmd, owner) ==
    LET S1 == sendCommand(S, cmd, NoActivity, owner, FALSE)
        r == Len(S1.reqs)
    IN  IF Pending(S1.reqs[r]) THEN S1 ELSE resumeCommand(S1, r)

\* ---- heartbeat, handshake ----------------------------------------------
startHeartbeat(S) == [S EXCEPT !.heartbeatInterval = TRUE]
clearHeartbeat(S) == [S EXCEPT !.heartbeatInterval = FALSE]

handshakeSendsAnyway(S) ==
    LET S1 == send(S, 0, HandshakeData(S))
    IN  IF S1.raised # NoErr THEN S1 ELSE startHeartbeat(S1)

handshake(S) ==
    IF S.clientId = NoClientId THEN [S EXCEPT !.raised = ClientIdRequired]
    ELSE LET S1 == send(S, 0, HandshakeData(S))
         IN  IF S1.raised # NoErr THEN S1 ELSE startHeartbeat(S1)


\* ---- inbound messages ---------------------------------------------------
\* A parsed inbound payload.  evt is "ERROR" for an error response, "none"
\* for a plain response; data is data.message of an error, the event's
\* data otherwise.
Response(S, r, kind) ==
    [cmd |-> S.reqs[r].cmd, nonce |-> r,
     evt |-> IF kind = "OK" THEN "none" ELSE "ERROR", data |-> kind]
Dispatch(evt, nonce) ==
    [cmd |-> "DISPATCH", nonce |-> nonce, evt |-> evt, data |-> "D"]
DispatchEvents == {"READY", "ERROR", "ACTIVITY_JOIN"}
\* A payload that JSON.parse rejects.
Malformed ==
    [cmd |-> "SyntaxError", nonce |-> 0, evt |-> "none", data |-> NoData]

\* The handler sendCommand stores under the nonce, followed by the
\* continuation of the caller it settles.  Reading data.message of an ERROR
\* response without data throws after clearTimeout; the catch block of
\* handleMessage takes the TypeError and the promise is left unsettled.
responseHandler(S, r, m) ==
    LET was == Pending(S.reqs[r])
        S1 == [S EXCEPT !.reqs[r].timer = FALSE, !.reqs[r].respRan = TRUE]
        S2 == IF m.evt = "ERROR"
              THEN IF m.data = NoData
                   THEN S1
                   ELSE reject(S1, r, "errorResponse", RemoteError(m.data))
              ELSE resolve(S1, r)
    IN  IF was /\ ~Pending(S2.reqs[r]) THEN resume(S2, r) ELSE S2

handleDispatchReadyAsDispatch(S, m) ==
    IF m.evt = "ERROR" THEN emit(S, "error", 0, m.data)
    ELSE emit(S, "dispatch", 0, m.evt)

handleDispatch(S, m) ==
    IF m.evt = "READY" THEN emit(S, "ready", 0, m.data)
    ELSE IF m.evt = "ERROR" THEN emit(S, "error", 0, m.data)
    ELSE emit(S, "dispatch", 0, m.evt)

handleMessageDropsUnmatched(S, m) ==
    LET S0 == [S EXCEPT !.received = m]
    IN  IF m = Malformed THEN S0
        ELSE IF m.nonce # 0 /\ m.nonce \in S0.pendingResponses
        THEN responseHandler([S0 EXCEPT !.pendingResponses = @ \ {m.nonce}],
                             m.nonce, m)
        ELSE IF m.cmd = "DISPATCH" THEN handleDispatch(S0, m)
        ELSE S0

\* JSON.parse throws on a payload that is not JSON: the catch block logs.
handleMessage(S, m) ==
    LET S0 == [S EXCEPT !.received = m]
    IN  IF m = Malformed THEN S0
        ELSE IF m.nonce # 0 /\ m.nonce \in S0.pendingResponses
        THEN responseHandler([S0 EXCEPT !.pendingResponses = @ \ {m.nonce}],
                             m.nonce, m)
        ELSE IF m.cmd = "DISPATCH" THEN handleDispatch(S0, m)
        ELSE emit(S0, "message", m.nonce, m.cmd)

timeoutCallbackKeepsEntry(S, r) ==
    LET was == Pending(S.reqs[r])
        S1 == [S EXCEPT !.reqs[r].timer = FALSE, !.reqs[r].timeoutRan = TRUE]
        S2 == reject(S1, r, "timeout", TimeoutError(S.reqs[r].cmd))
    IN  IF was THEN resume(S2, r) ELSE S2

timeoutCallbackNamesNothing(S, r) ==
    LET was == Pending(S.reqs[r])
        S1 == [S EXCEPT !.reqs[r].timer = FALSE, !.reqs[r].timeoutRan = TRUE,
                        !.pendingResponses = @ \ {r}]
        S2 == reject(S1, r, "timeout", TimeoutError("undefined"))
    IN  IF was THEN resume(S2, r) ELSE S2

\* The callback of the setTimeout armed by sendCommand.
timeoutCallback(S, r) ==
    LET was == Pending(S.reqs[r])
        S1 == [S EXCEPT !.reqs[r].timer = FALSE, !.reqs[r].timeoutRan = TRUE,
                        !.pendingResponses = @ \ {r}]
        S2 == reject(S1, r, "timeout", TimeoutError(S.reqs[r].cmd))
    IN  IF was THEN resume(S2, r) ELSE S2

\* ---- connection ---------------------------------------------------------
\* The 'connect' handler of tryConnect, then connect() after its await.
connectHandlerKeepsAttempts(S) ==
    LET s == Len(S.socks) + 1
        S1 == [S EXCEPT !.socks = Append(@, [st |-> "open", hs |-> FALSE]),
                        !.socket = s, !.connected = TRUE]
    IN  emit(S1, "connect", 0, NoActivity)

connectHandler(S) ==
    LET s == Len(S.socks) + 1
        S1 == [S EXCEPT !.socks = Append(@, [st |-> "open", hs |-> FALSE]),
                        !.socket = s, !.connected = TRUE]
    IN  emit([S1 EXCEPT !.reconnectAttempts = 0], "connect", 0, NoActivity)

\* Math.pow(2, n) and Math.min on the integers that occur
RECURSIVE Pow2(_)
Pow2(n) == IF n <= 0 THEN 1 ELSE 2 * Pow2(n - 1)
Min(a, b) == IF a <= b THEN a ELSE b

scheduleReconnectOldAttempts(S) ==
    [S EXCEPT !.reconnectAttempts = @ + 1, !.reconnectTimers = @ + 1,
              !.delay = Min(S.reconnectDelay * Pow2(S.reconnectAttempts - 1),
                            MaxDelay)]

scheduleReconnect(S) ==
    LET attempts == S.reconnectAttempts + 1
    IN  [S EXCEPT !.reconnectAttempts = attempts, !.reconnectTimers = @ + 1,
                  !.delay = Min(S.reconnectDelay * Pow2(attempts - 1),
                                MaxDelay)]

closeHandlerAlwaysRetries(S) ==
    LET S1 == emit(clearHeartbeat([S EXCEPT !.connected = FALSE,
                                            !.authenticated = FALSE]),
                   "disconnect", 0, NoActivity)
    IN  IF S1.autoReconnect
        THEN scheduleReconnect([S1 EXCEPT !.closedAuthenticated = S.authenticated])
        ELSE S1

\* The 'close' handler installed by setupSocketHandlers.
closeHandler(S) ==
    LET S1 == emit(clearHeartbeat([S EXCEPT !.connected = FALSE,
                                            !.authenticated = FALSE]),
                   "disconnect", 0, NoActivity)
    IN  IF S1.autoReconnect /\ S1.reconnectAttempts < S1.maxReconnectAttempts
        THEN scheduleReconnect([S1 EXCEPT !.closedAuthenticated = S.authenticated])
        ELSE S1

reconnectChainKeepsQuiet(S) ==
    LET S1 == handshake(S)
    IN  IF S1.raised # NoErr THEN [S1 EXCEPT !.raised = NoErr]
        ELSE IF S1.authenticated THEN authenticate(S1, FALSE, TRUE)
        ELSE S1

\* The reconnect callback after `await this.connect()`; what it throws is
\* caught and logged.
reconnectChain(S) ==
    LET S1 == handshake(S)
    IN  IF S1.raised # NoErr THEN [S1 EXCEPT !.raised = NoErr]
        ELSE IF S1.authenticated THEN authenticate(S1, FALSE, TRUE)
        ELSE IF S1.currentActivity # NoActivity
        THEN setActivity(S1, S1.currentActivity, TRUE)
        ELSE S1

\* socket.end() of a socket that is still open: its 'close' event follows.
\* On a socket that has already closed it does nothing.
socketEnd(S, s) ==
    [S EXCEPT !.socks[s].st = IF @ = "open" THEN "ended" ELSE @]

disconnectKeepsQueue(S) ==
    LET S1 == clearHeartbeat([S EXCEPT !.autoReconnect = FALSE])
        S2 == IF S1.socket # 0
              THEN [socketEnd(S1, S1.socket) EXCEPT !.socket = 0]
              ELSE S1
    IN  emit([S2 EXCEPT !.connected = FALSE, !.authenticated = FALSE,
                        !.pendingResponses = {}],
             "disconnect", 0, NoActivity)

disconnectEndsNull(S) ==
    LET S1 == clearHeartbeat([S EXCEPT !.autoReconnect = FALSE])
    IN  IF S1.socket = 0 THEN [S1 EXCEPT !.raised = [kind |-> "TypeError", info |-> "null"]]
        ELSE emit([socketEnd(S1, S1.socket)
                     EXCEPT !.socket = 0,
                            !.connected = FALSE, !.authenticated = FALSE,
                            !.pendingResponses = {}, !.messageQueue = <<>>],
                  "disconnect", 0, NoActivity)

disconnect(S) ==
    LET S1 == clearHeartbeat([S EXCEPT !.autoReconnect = FALSE])
        S2 == IF S1.socket # 0
              THEN [socketEnd(S1, S1.socket) EXCEPT !.socket = 0]
              ELSE S1
    IN  emit([S2 EXCEPT !.connected = FALSE, !.authenticated = FALSE,
                        !.pendingResponses = {}, !.messageQueue = <<>>],
             "disconnect", 0, NoActivity)

\* ---- bounds on what a task may allocate ---------------------------------
Reserved(S) ==
    Cardinality({r \in 1..Len(S.reqs) :
                    /\ S.reqs[r].chain
                    /\ S.reqs[r].owner = "authenticate"
                    /\ Pending(S.reqs[r])})
FreeSlots(S) == S.limits.reqs - Len(S.reqs) - Reserved(S)
InProgress(S) ==
    Cardinality({r \in 1..Len(S.reqs) :
                    Pending(S.reqs[r]) \/ S.reqs[r].timer})
ChainNeeds(S) ==
    IF S.clientId = NoClientId THEN 0
    ELSE IF S.authenticated THEN 2
    ELSE IF S.currentActivity # NoActivity THEN 1 ELSE 0
MayChain(S) ==
    \/ ChainNeeds(S) = 0
    \/ FreeSlots(S) >= ChainNeeds(S) /\ InProgress(S) < S.limits.pending
MayQueue(S) ==
    S.connected \/ ~S.autoReconnect \/ Len(S.messageQueue) < S.limits.queue
MayCommand(S) ==
    /\ ~S.spinning /\ MayQueue(S)
    /\ FreeSlots(S) >= 1 /\ InProgress(S) < S.limits.pending

\* ---- initial state: the constructor ------------------------------------
Start(lim, ids, auto) ==
    /\ limits = lim
    /\ maxReconnectAttempts = lim.attempts
    /\ reconnectDelay \in lim.delays
    /\ delay = 0
    /\ clientId \in ids
    /\ autoReconnect \in auto
    /\ connected = FALSE
    /\ authenticated = FALSE
    /\ reconnectAttempts = 0
    /\ currentActivity = NoActivity
    /\ messageQueue = <<>>
    /\ pendingResponses = {}
    /\ heartbeatInterval = FALSE
    /\ socket = 0
    /\ socks = <<>>
    /\ reqs = <<>>
    /\ connecting = [user |-> 0, reconnect |-> 0]
    /\ reconnectTimers = 0
    /\ spinning = FALSE
    /\ closedAuthenticated = FALSE
    /\ op = [name |-> "constructor", r |-> 0]
    /\ emitted = <<>>
    /\ wrote = <<>>
    /\ raised = NoErr
    /\ received = NoMessage
    /\ receiveTimers = 0
    /\ sent = <<>> /\ wire = <<>> /\ buffer = <<>> /\ frames = <<>>

\* ---- the caller's API calls --------------------------------------------
Send ==
    /\ ~spinning /\ MayQueue(Cur)
    /\ Commit(send(Task("send", 0), 1, RawData))

Handshake ==
    /\ ~spinning /\ MayQueue(Cur)
    /\ Commit(handshake(Task("handshake", 0)))

SendCommand ==
    /\ MayCommand(Cur)
    /\ Commit(command(Task("sendCommand", Len(reqs) + 1),
                      "GET_USER", "sendCommand"))

Authenticate ==
    /\ MayCommand(Cur)
    /\ \E token \in BOOLEAN :
          Commit(authenticate(Task("authenticate", Len(reqs) + 1),
                              token, FALSE))

SetActivity ==
    /\ MayCommand(Cur)
    /\ \E a \in Activities :
          Commit(setActivity(Task("setActivity", Len(reqs) + 1), a, FALSE))

ConnectAgain ==
    /\ ~spinning
    /\ connecting.user < limits.connecting
    /\ Commit([Task("connect", 0) EXCEPT !.connecting.user = @ + 1])

Connect ==
    /\ ~spinning
    /\ connected \/ connecting.user < limits.connecting
    /\ LET S == Task("connect", 0)
       IN  IF connected THEN Commit(S)
           ELSE Commit([S EXCEPT !.connecting.user = @ + 1])

Disconnect ==
    /\ ~spinning
    /\ Commit(disconnect(Task("disconnect", 0)))

\* ---- events -------------------------------------------------------------
\* Some candidate path accepts the connection of a caller's connect().
ConnectSucceeds ==
    /\ ~spinning /\ Len(socks) < limits.socks
    /\ connecting.user > 0
    /\ Commit(connectHandler([Task("connectOk", Len(socks) + 1)
                                EXCEPT !.connecting.user = @ - 1]))

ConnectFailsQuietly ==
    /\ ~spinning
    /\ connecting.user > 0
    /\ Commit([Task("connectFailed", 0) EXCEPT !.connecting.user = @ - 1])

\* Every candidate path of a caller's connect() failed.
ConnectFails ==
    /\ ~spinning
    /\ connecting.user > 0
    /\ Commit([Task("connectFailed", 0)
                 EXCEPT !.connecting.user = @ - 1, !.raised = ConnectFailed])

\* A reconnect timer fires: connect(), then the rest of the chain.
ReconnectFires ==
    /\ ~spinning /\ reconnectTimers > 0
    /\ LET S == [Task("reconnect", 0) EXCEPT !.reconnectTimers = @ - 1]
       IN  IF connected
           THEN /\ MayChain(Cur)
                /\ Commit(reconnectChain(S))
           ELSE /\ connecting.reconnect < limits.connecting
                /\ Commit([S EXCEPT !.connecting.reconnect = @ + 1])

\* Some candidate path accepts the connection of a reconnect's connect().
ReconnectSucceeds ==
    /\ ~spinning /\ Len(socks) < limits.socks
    /\ connecting.reconnect > 0
    /\ MayChain(Cur)
    /\ Commit(reconnectChain(connectHandler(
                 [Task("reconnectOk", Len(socks) + 1)
                    EXCEPT !.connecting.reconnect = @ - 1])))

\* Every candidate path of a reconnect's connect() failed: caught, logged.
ReconnectFails ==
    /\ ~spinning
    /\ connecting.reconnect > 0
    /\ Commit([Task("reconnectFailed", 0)
                 EXCEPT !.connecting.reconnect = @ - 1])

\* The connection is gone: its remote end has forgotten what it received.
Closed(S, s) ==
    [S EXCEPT !.socks[s] = [st |-> "closed", hs |-> FALSE],
              !.reqs = [r \in DOMAIN @ |->
                          IF @[r].sentOn = s
                          THEN [@[r] EXCEPT !.sentOn = 0] ELSE @[r]]]

\* The 'close' event of a socket whose handlers are installed.
SocketClose ==
    /\ ~spinning
    /\ \E s \in 1..Len(socks) :
          /\ socks[s].st \in {"open", "ended"}
          /\ Commit(closeHandler(Closed(Task("close", s), s)))

Alive(s) == socks[s].st \in {"open", "ended"} /\ socks[s].hs

\* What the remote end may answer to a command.
Answers(cmd) ==
    IF cmd = "AUTHORIZE" THEN ResponseKinds ELSE {"OK", NoData, "Some error"}

\* The remote end answers a command it has received (possibly again).
RemoteResponds ==
    /\ ~spinning
    /\ \E r \in 1..Len(reqs) :
          /\ reqs[r].sentOn # 0
          /\ Alive(reqs[r].sentOn)
          /\ \E kind \in Answers(reqs[r].cmd) :
                Commit(handleMessage(Task("response", r),
                                     Response(Cur, r, kind)))

\* The remote end pushes an event; the frame carries no nonce or a nonce
\* the remote end has received on that socket.
RemoteDispatches ==
    /\ ~spinning
    /\ \E s \in 1..Len(socks), evt \in DispatchEvents, n \in 0..Len(reqs) :
          /\ Alive(s)
          /\ n # 0 => reqs[n].sentOn = s
          /\ Commit(handleMessage(Task("dispatch", s), Dispatch(evt, n)))

\* The remote end sends a frame whose payload is not JSON.
RemoteGarbles ==
    /\ ~spinning
    /\ \E s \in 1..Len(socks) :
          /\ Alive(s)
          /\ Commit(handleMessage(Task("garbage", s), Malformed))

\* The timeout of a sendCommand call fires.
TimeoutFires ==
    /\ ~spinning
    /\ \E r \in 1..Len(reqs) :
          /\ reqs[r].timer
          /\ Commit(timeoutCallback(Task("timeout", r), r))

\* One more turn of a processQueue loop that cannot end.
Spin ==
    /\ spinning
    /\ Commit(processQueueStep([Cur EXCEPT !.op = [name |-> "spin",
                                                   r |-> 0]]))

Next ==
    \/ Send \/ Handshake \/ SendCommand \/ Authenticate \/ SetActivity
    \/ Connect \/ Disconnect
    \/ ConnectSucceeds \/ ConnectFails
    \/ ReconnectFires \/ ReconnectSucceeds \/ ReconnectFails
    \/ SocketClose \/ RemoteResponds \/ RemoteDispatches \/ RemoteGarbles
    \/ TimeoutFires \/ Spin

Init ==
    Start([reqs |-> Cardinality(Nonces), pending |-> MaxPending,
           socks |-> Cardinality(Sockets), queue |-> MaxQueue,
           connecting |-> MaxConnecting, attempts |-> MaxAttempts,
           delays |-> {DefaultReconnectDelay}],
          ClientIds \cup {NoClientId}, BOOLEAN)

Spec == Init /\ [][Next]_vars



\* ======================================================================
\* Properties
\* ======================================================================
Emitted(ev) == \E i \in 1..Len(emitted) : emitted[i].ev = ev
Frame(e) == [opcode |-> e[1], data |-> e[2]]
Written(i) == [opcode |-> wrote[i].opcode, data |-> wrote[i].data]

\* C1: send() called while connected = false and autoReconnect is disabled
\* fails with the 'not connected' error, writes nothing to the transport
\* and leaves the outbound queue as it was (called directly, or by
\* handshake(), which lets the error through).
C1_SendNotConnected ==
    [][(/\ op'.name \in {"send", "handshake"}
        /\ clientId # NoClientId
        /\ ~connected /\ ~autoReconnect)
       => (/\ raised' = NotConnectedError
           /\ wrote' = <<>>
           /\ messageQueue' = messageQueue)]_vars

C1_Witness ==
    /\ op.name = "send"
    /\ ~connected /\ ~autoReconnect
    /\ raised = NotConnectedError

C3_SendQueues ==
    [][(/\ op'.name \in {"send", "handshake"}
        /\ clientId # NoClientId
        /\ ~connected /\ autoReconnect)
       => (/\ raised' = NoErr
           /\ wrote' = <<>>
           /\ messageQueue' =
                 Append(messageQueue,
                        IF op'.name = "send" THEN <<1, RawData>>
                        ELSE <<0, HandshakeData(Cur)>>))]_vars

C3_Witness ==
    /\ op.name = "send"
    /\ ~connected /\ autoReconnect /\ raised = NoErr
    /\ Len(messageQueue) = 2
    /\ messageQueue[1] # messageQueue[2]


\* ---- the outcome of sendCommand calls ----------------------------------
Calls == 1..Len(reqs)
\* The promise of call r was settled by the task that produced this state.
SettledNow(r) ==
    /\ r \in Calls /\ op.r = r
    /\ \/ op.name \in {"response", "timeout"}
          /\ reqs[r].by \in {"response", "errorResponse", "timeout"}
       \/ op.name \in {"sendCommand", "authenticate", "setActivity"}
          /\ reqs[r].by = "send"
\* No settlement is undone or replaced, and the caller is resumed once.
SettledOnce ==
    \A r \in Calls :
       /\ reqs[r].by # "none" => reqs'[r].by \in {reqs[r].by, "done"}
       /\ reqs[r].call # "pending" => reqs'[r].call \in {reqs[r].call, "done"}
\* The response handler and the timeout callback of a call never both run.
NotResponseAndTimeout ==
    \A r \in Calls :
       /\ (op'.name = "timeout" /\ op'.r = r) => reqs[r].by \in {"none", "send"}
       /\ (op'.name = "response" /\ op'.r = r /\ r \in pendingResponses)
             => reqs[r].by = "none" /\ reqs[r].timer
       /\ ~(reqs'[r].respRan /\ reqs'[r].timeoutRan)

C6_CloseRejectsPending ==
    [][op'.name \in {"close", "disconnect"}
       => (/\ pendingResponses' = {}
           /\ \A r \in pendingResponses : reqs'[r].by # "none")]_vars

\* ---- every call is settled in the end ------------------------------------
\* Timers that are armed fire in the end, as long as the event loop runs.
LiveInit ==
    Start([reqs |-> Cardinality(Nonces), pending |-> 1,
           socks |-> Cardinality(Sockets), queue |-> 1, connecting |-> 1,
           attempts |-> 1, delays |-> {DefaultReconnectDelay}],
          ClientIds, BOOLEAN)
\* The steps of Next that are TimeoutFires steps: the task is the callback
\* of a timer that was armed.
TimerExpires ==
    /\ ~spinning
    /\ \E r \in 1..Len(reqs) :
          /\ reqs[r].timer
          /\ op' = [name |-> "timeout", r |-> r]
LiveSpec == LiveInit /\ [][Next]_vars /\ WF_op(TimerExpires)

\* C7: every sendCommand call is settled in the end (resolved or rejected)
\* whatever happens to the connection, in every execution in which timers
\* fire, i.e. the event loop is not held by a processQueue that never
\* returns.
C7_EverySendCommandSettles ==
    \A r \in Nonces :
       (r \in Calls /\ reqs[r].by = "none")
          ~> ((r \in Calls /\ reqs[r].by # "none") \/ spinning)

\* ---- authenticate() when its command is rejected -------------------------
\* Call r, made by authenticate() without a token, is rejected in this step
\* by its timeout or by an error response.
AuthorizeRejected(r) ==
    /\ op'.r = r /\ op'.name \in {"timeout", "response"}
    /\ reqs[r].owner = "authenticate" /\ reqs[r].by = "none"
    /\ reqs'[r].by \in {"timeout", "errorResponse"}

\* C8: when the AUTHORIZE of an authenticate() without token is rejected,
\* the failure is swallowed: authenticate() returns normally with
\* authenticated = true, 'authenticated' emitted and the queue flushed.
C8_AuthorizeFailureSwallowed ==
    [][\A r \in Calls :
          AuthorizeRejected(r)
          => (/\ reqs'[r].call = "ok"
              /\ raised' = NoErr
              /\ authenticated'
              /\ Emitted("authenticated")'
              /\ messageQueue' = <<>>
              /\ ~spinning')]_vars

\* C9: when the AUTHENTICATE of an authenticate(token) is rejected, the
\* rejection reaches the caller, authenticated keeps its value, nothing is
\* emitted as 'authenticated' and the queue is neither flushed nor changed.
C9_TokenFailurePropagates ==
    [][\A r \in 1..Len(reqs') :
          (/\ reqs'[r].owner = "authenticateToken"
           /\ SettledNow(r)'
           /\ reqs'[r].by # "response")
          => (/\ reqs'[r].call = "raised"
              /\ raised' = reqs'[r].err
              /\ raised' # NoErr
              /\ authenticated' = authenticated
              /\ ~Emitted("authenticated")'
              /\ wrote' = <<>>
              /\ messageQueue' = messageQueue
              /\ ~spinning')]_vars

C9_Witness ==
    /\ op.name = "response" /\ op.r \in Calls
    /\ reqs[op.r].owner = "authenticateToken"
    /\ reqs[op.r].by = "errorResponse"
    /\ raised = RemoteError("Some error")
    /\ connected /\ ~authenticated /\ messageQueue # <<>>

C11_RetryReauthenticates ==
    [][(/\ op'.name = "reconnectOk"
        /\ closedAuthenticated
        /\ clientId # NoClientId)
       => \E i \in 1..Len(wrote') :
             /\ wrote'[i].sock = socket'
             /\ wrote'[i].data.cmd = "AUTHORIZE"]_vars

\* ---- the backoff of scheduleReconnect ------------------------------------
\* scheduleReconnect() applied again and again, for each reconnectDelay.
ScheduleReconnect ==
    /\ reconnectAttempts < limits.attempts
    /\ Commit(scheduleReconnect(Task("scheduleReconnect", 0)))

DelayNext == ScheduleReconnect

DelayInit ==
    Start([reqs |-> 0, pending |-> 0, socks |-> 0, queue |-> 0,
           connecting |-> 0, attempts |-> MaxBackoff,
           delays |-> ReconnectDelays],
          ClientIds \cup {NoClientId}, BOOLEAN)

DelaySpec == DelayInit /\ [][DelayNext]_vars

\* C12: scheduleReconnect increments reconnectAttempts and then arms the
\* timer with min(reconnectDelay * 2^(reconnectAttempts-1), 30000) ms: for
\* reconnectDelay 1000 the first six delays are 1000, 2000, 4000, 8000,
\* 16000, 30000, and no delay exceeds 30000.
C12_BackoffDelay ==
    [][op'.name = "scheduleReconnect"
       => LET n == reconnectAttempts'
              uncapped == reconnectDelay * Pow2(n - 1)
          IN  /\ n = reconnectAttempts + 1
              /\ reconnectTimers' = reconnectTimers + 1
              /\ delay' <= 30000
              /\ delay' = IF uncapped <= 30000 THEN uncapped ELSE 30000
              /\ (reconnectDelay = 1000 /\ n \in 1..6)
                    => delay' = <<1000, 2000, 4000, 8000, 16000, 30000>>[n]]_vars

C12_Witness ==
    /\ op.name = "scheduleReconnect"
    /\ reconnectDelay = 1000 /\ reconnectAttempts = 6 /\ delay = 30000

\* ---- disconnect() ---------------------------------------------------------
SessionState ==
    <<connected, authenticated, autoReconnect, socket, pendingResponses,
      messageQueue, heartbeatInterval>>

C14_DisconnectIdempotent ==
    [][(op.name = "disconnect" /\ op'.name = "disconnect")
       => (raised' = NoErr /\ SessionState' = SessionState)]_vars

C14_Witness ==
    /\ op.name = "disconnect" /\ Len(emitted) = 1
    /\ \E s \in 1..Len(socks) : socks[s].st = "ended"
    /\ reconnectTimers > 0

\* C15: once disconnect() has returned, no reconnect timer fires: the
\* callback of a reconnect timer only ever runs with autoReconnect on.
C15_DisconnectCancelsReconnect ==
    [][op'.name = "reconnect" => autoReconnect]_vars

\* ---- connect() -----------------------------------------------------------
\* C16: connect() on a connected session opens no connection, emits
\* nothing and leaves socket, reconnectAttempts, authenticated, the pending
\* map and the queue unchanged.
C16_ConnectWhileConnected ==
    [][(op'.name = "connect" /\ connected)
       => (/\ raised' = NoErr
           /\ socks' = socks /\ connecting' = connecting
           /\ emitted' = <<>> /\ wrote' = <<>>
           /\ socket' = socket /\ connected'
           /\ reconnectAttempts' = reconnectAttempts
           /\ authenticated' = authenticated
           /\ pendingResponses' = pendingResponses
           /\ messageQueue' = messageQueue)]_vars

C16_Witness ==
    /\ op.name = "connect" /\ connected /\ authenticated
    /\ pendingResponses # {} /\ connecting.user = 0

\* C17: when a candidate path accepts the connection of a connect() made
\* while disconnected, connect() completes with connected = true,
\* reconnectAttempts = 0 and exactly one 'connect' notification.
C17_ConnectSucceeds ==
    [][op'.name = "connectOk"
       => (/\ raised' = NoErr
           /\ connected' /\ reconnectAttempts' = 0
           /\ emitted' = <<[ev |-> "connect", n |-> 0, arg |-> NoActivity]>>
           /\ socket' = Len(socks) + 1
           /\ socks' = Append(socks, [st |-> "open", hs |-> FALSE]))]_vars

\* The caller reconnects by itself after a close that had counted an attempt.
C17_Witness ==
    /\ op.name = "connectOk" /\ connected /\ reconnectAttempts = 0
    /\ reconnectTimers > 0 /\ socket = 2

\* C18: when every candidate path of a connect() made while disconnected
\* fails, connect() raises to its caller, emits nothing and leaves
\* connected, socket and reconnectAttempts as they are.
C18_ConnectFails ==
    [][op'.name = "connectFailed"
       => (/\ raised' = ConnectFailed
           /\ connected' = connected /\ socket' = socket /\ socks' = socks
           /\ emitted' = <<>>
           /\ reconnectAttempts' = reconnectAttempts
           /\ connecting'.user = connecting.user - 1)]_vars

C18_Witness ==
    /\ op.name = "connectFailed" /\ ~connected /\ raised = ConnectFailed
    /\ reconnectAttempts = 1 /\ socket = 1

\* ---- dispatched events -----------------------------------------------------
\* C19: an inbound frame {cmd: 'DISPATCH', evt: 'READY', data: D} whose
\* nonce matches no pending request produces exactly one notification,
\* 'ready' carrying D, and settles no pending request.
C19_ReadyDispatch ==
    [][(/\ op'.name = "dispatch"
        /\ received'.cmd = "DISPATCH" /\ received'.evt = "READY"
        /\ received'.nonce \notin pendingResponses)
       => (/\ emitted' = <<[ev |-> "ready", n |-> 0, arg |-> received'.data]>>
           /\ pendingResponses' = pendingResponses
           /\ \A r \in Calls :
                 /\ reqs[r].by = "none" => reqs'[r].by = "none"
                 /\ reqs[r].call = "pending" => reqs'[r].call = "pending"
           /\ raised' = NoErr /\ wrote' = <<>>)]_vars

\* READY arrives, carrying the nonce of a request that has timed out, while
\* another request is pending.
C19_Witness ==
    /\ op.name = "dispatch"
    /\ received.cmd = "DISPATCH" /\ received.evt = "READY"
    /\ received.nonce # 0 /\ received.nonce \notin pendingResponses
    /\ pendingResponses # {}
    /\ emitted = <<[ev |-> "ready", n |-> 0, arg |-> "D"]>>

\* ---- the wire format --------------------------------------------------------
\* A frame is an 8-byte header, opcode and payload length as little-endian
\* unsigned 32-bit integers, followed by the payload, the UTF-8 bytes of the
\* JSON text of the data.  Bytes are 0..255; a JS string is a sequence of
\* characters; the data are JSON string values over Chars.  Opcodes stay
\* below 2^31.
MaxFrames == 2
MaxText == 2
Opcodes == {0, 1, 16909060}
Chars == {"a", "eacute", "quote"}
Texts == UNION {[1..n -> Chars] : n \in 0..MaxText}
SyntaxError == <<"SyntaxError">>

\* JSON.stringify of a string value: quotes around it, '"' and '\' escaped.
RECURSIVE escape(_)
escape(s) ==
    IF s = <<>> THEN <<>>
    ELSE (IF Head(s) \in {"quote", "backslash"}
          THEN <<"backslash", Head(s)>> ELSE <<Head(s)>>) \o escape(Tail(s))

JSONstringify(data) == <<"quote">> \o escape(data) \o <<"quote">>

\* JSON.parse of a text that is a string literal; anything else throws.
RECURSIVE unescape(_, _, _)
unescape(text, i, value) ==
    IF i > Len(text) THEN SyntaxError
    ELSE IF text[i] = "quote"
         THEN IF i = Len(text) THEN value ELSE SyntaxError
    ELSE IF text[i] = "backslash"
         THEN IF i < Len(text) /\ text[i + 1] \in {"quote", "backslash"}
              THEN unescape(text, i + 2, Append(value, text[i + 1]))
              ELSE SyntaxError
    ELSE IF text[i] = "replacement" THEN SyntaxError
    ELSE unescape(text, i + 1, Append(value, text[i]))

JSONparse(text) ==
    IF text # <<>> /\ Head(text) = "quote" THEN unescape(text, 2, <<>>)
    ELSE SyntaxError

\* The UTF-8 encoding of a character.
Utf8(c) ==
    CASE c = "a" -> <<97>>
      [] c = "quote" -> <<34>>
      [] c = "backslash" -> <<92>>
      [] c = "eacute" -> <<195, 169>>

\* Buffer.from(string)
RECURSIVE BufferFrom(_)
BufferFrom(str) ==
    IF str = <<>> THEN <<>> ELSE Utf8(Head(str)) \o BufferFrom(Tail(str))

\* buffer.toString(): UTF-8 decoding; a byte that starts no character
\* becomes the replacement character.
RECURSIVE toString(_)
toString(b) ==
    IF b = <<>> THEN <<>>
    ELSE IF b[1] = 97 THEN <<"a">> \o toString(Tail(b))
    ELSE IF b[1] = 34 THEN <<"quote">> \o toString(Tail(b))
    ELSE IF b[1] = 92 THEN <<"backslash">> \o toString(Tail(b))
    ELSE IF b[1] = 195 /\ Len(b) >= 2 /\ b[2] = 169
         THEN <<"eacute">> \o toString(SubSeq(b, 3, Len(b)))
    ELSE <<"replacement">> \o toString(Tail(b))

writeUInt32LE(n) ==
    <<n % 256, (n \div 256) % 256, (n \div 65536) % 256,
      (n \div 16777216) % 256>>

readUInt32LE(b, offset) ==
    b[offset + 1] + 256 * b[offset + 2] + 65536 * b[offset + 3]
      + 16777216 * b[offset + 4]

sendBytesTextLength(opcode, data) ==
    LET text == JSONstringify(data)
    IN  writeUInt32LE(opcode) \o writeUInt32LE(Len(text)) \o BufferFrom(text)

\* The bytes send() hands to socket.write for (opcode, data).
sendBytes(opcode, data) ==
    LET payload == BufferFrom(JSONstringify(data))
    IN  writeUInt32LE(opcode) \o writeUInt32LE(Len(payload)) \o payload

\* What handleMessage makes of a payload.
parseMessage(payload) == JSONparse(toString(payload))

\* The loop of the 'data' handler: complete frames leave the buffer in
\* order, an incomplete one stays.
RECURSIVE drain(_, _)
drain(buf, out) ==
    IF Len(buf) < 8 THEN [buffer |-> buf, frames |-> out]
    ELSE LET opcode == readUInt32LE(buf, 0)
             length == readUInt32LE(buf, 4)
         IN  IF Len(buf) < 8 + length THEN [buffer |-> buf, frames |-> out]
             ELSE drain(SubSeq(buf, 9 + length, Len(buf)),
                        Append(out, [opcode |-> opcode,
                                     payload |-> SubSeq(buf, 9, 8 + length)]))

RECURSIVE drainUntilThrow(_, _)
drainUntilThrow(buf, out) ==
    IF Len(buf) < 8 THEN [buffer |-> buf, frames |-> out]
    ELSE LET opcode == readUInt32LE(buf, 0)
             length == readUInt32LE(buf, 4)
             payload == SubSeq(buf, 9, 8 + length)
             rest == SubSeq(buf, 9 + length, Len(buf))
             handed == Append(out, [opcode |-> opcode, payload |-> payload])
         IN  IF Len(buf) < 8 + length THEN [buffer |-> buf, frames |-> out]
             ELSE IF parseMessage(payload) = SyntaxError
                  THEN [buffer |-> rest, frames |-> handed]
                  ELSE drainUntilThrow(rest, handed)

dataHandlerThrows(buf, data) == drainUntilThrow(buf \o data, <<>>)

dataHandlerOneFrame(buf, data) ==
    LET b == buf \o data
    IN  IF Len(b) < 8 \/ Len(b) < 8 + readUInt32LE(b, 4)
        THEN [buffer |-> b, frames |-> <<>>]
        ELSE LET length == readUInt32LE(b, 4)
             IN  [buffer |-> SubSeq(b, 9 + length, Len(b)),
                  frames |-> <<[opcode |-> readUInt32LE(b, 0),
                                payload |-> SubSeq(b, 9, 8 + length)]>>]

dataHandler(buf, data) == drain(buf \o data, <<>>)

\* Payloads the remote end may write that are not JSON: nothing, a bare
\* word, a string literal cut off inside a character.
BadPayloads == {<<>>, <<97>>, <<34, 195>>}

\* The remote end writes one frame whose payload is not JSON.
RemoteWrites ==
    /\ Len(sent) < MaxFrames
    /\ \E opcode \in Opcodes, payload \in BadPayloads :
          LET b == writeUInt32LE(opcode) \o writeUInt32LE(Len(payload))
                     \o payload
          IN  /\ sent' = Append(sent, [opcode |-> opcode,
                                       data |-> parseMessage(payload),
                                       bytes |-> b])
              /\ wire' = wire \o b
    /\ UNCHANGED <<engine, buffer, frames>>

\* send() on a connected session writes one frame.
WriteFrame ==
    /\ Len(sent) < MaxFrames
    /\ \E opcode \in Opcodes, data \in Texts :
          /\ sent' = Append(sent, [opcode |-> opcode, data |-> data,
                                   bytes |-> sendBytes(opcode, data)])
          /\ wire' = wire \o sendBytes(opcode, data)
    /\ UNCHANGED <<engine, buffer, frames>>

\* A 'data' event delivers the next bytes, in chunks of any size.
SocketData ==
    /\ \E k \in 1..Len(wire) :
          LET r == dataHandler(buffer, SubSeq(wire, 1, k))
          IN  /\ buffer' = r.buffer
              /\ frames' = frames \o
                              [i \in 1..Len(r.frames) |->
                                 [opcode |-> r.frames[i].opcode,
                                  payload |-> r.frames[i].payload,
                                  data |-> parseMessage(r.frames[i].payload)]]
              /\ wire' = SubSeq(wire, k + 1, Len(wire))
    /\ UNCHANGED <<engine, sent>>

FrameNext == WriteFrame \/ RemoteWrites \/ SocketData
FrameInit == Start([reqs |-> 0, pending |-> 0, socks |-> 0, queue |-> 0,
                    connecting |-> 0, attempts |-> 0,
                    delays |-> {DefaultReconnectDelay}],
                   ClientIds, {TRUE})
FrameSpec == FrameInit /\ [][FrameNext]_vars

\* C20: for every opcode and data, the bytes send() writes are an 8-byte
\* header, whose second word is the byte length of the payload, and the
\* payload; decoding them yields the frames written, each once, in order,
\* with the same opcode and data, and leaves no byte in the buffer.
C20_FrameRoundTrip ==
    /\ \A i \in 1..Len(sent) :
          /\ readUInt32LE(sent[i].bytes, 0) = sent[i].opcode
          /\ readUInt32LE(sent[i].bytes, 4) = Len(sent[i].bytes) - 8
    /\ Len(frames) <= Len(sent)
    /\ \A i \in 1..Len(frames) :
          frames[i].opcode = sent[i].opcode /\ frames[i].data = sent[i].data
    /\ wire = <<>> => (buffer = <<>> /\ Len(frames) = Len(sent))

\* Two frames, one with a two-byte character and an escaped quote, have
\* been delivered and decoded.
C20_Witness ==
    /\ Len(sent) = 2 /\ wire = <<>> /\ buffer = <<>> /\ Len(frames) = 2
    /\ frames[1].opcode = 16909060 /\ frames[1].data = <<"eacute", "quote">>
    /\ frames[2].opcode = 1 /\ frames[2].data = <<>>

\* ---- chunked delivery ---------------------------------------------------
\* All bytes written so far, and those of them that have arrived.
RECURSIVE Stream(_)
Stream(n) == IF n = 0 THEN <<>> ELSE Stream(n - 1) \o sent[n].bytes
Arrived == SubSeq(Stream(Len(sent)), 1, Len(Stream(Len(sent))) - Len(wire))

\* C21: however the bytes of the frames are cut into chunks, handleMessage
\* has been invoked with the same (opcode, payload) pairs, in the same
\* order, as when the bytes that have arrived come in one chunk, and the
\* same bytes are left in the buffer; a frame is only handed over once its
\* last byte has arrived, and once all N frames have arrived handleMessage
\* has been invoked N times.
C21_ChunkedDecode ==
    LET one == dataHandler(<<>>, Arrived)
    IN  /\ buffer = one.buffer
        /\ Len(frames) = Len(one.frames)
        /\ \A i \in 1..Len(frames) :
              /\ frames[i].opcode = one.frames[i].opcode
              /\ frames[i].payload = one.frames[i].payload
              /\ frames[i].payload = SubSeq(sent[i].bytes, 9, Len(sent[i].bytes))
              /\ Len(Stream(i)) <= Len(Arrived)
        /\ wire = <<>> => Len(frames) = Len(sent)

\* The first frame, with a payload of six bytes, has been handed over and
\* a chunk has ended inside the header of the second.
C21_Witness ==
    /\ Len(sent) = 2 /\ Len(frames) = 1 /\ Len(buffer) \in 1..7
    /\ Len(frames[1].payload) = 6

\* ---- late responses -----------------------------------------------------
\* No request becomes settled and no caller is resumed in this step.
SettlesNothing ==
    \A r \in Calls :
       /\ reqs[r].by = "none" => reqs'[r].by = "none"
       /\ reqs[r].call = "pending" => reqs'[r].call = "pending"

SessionUntouched ==
    /\ SessionState' = SessionState
    /\ reconnectAttempts' = reconnectAttempts
    /\ currentActivity' = currentActivity
    /\ socks' = socks /\ connecting' = connecting
    /\ reconnectTimers' = reconnectTimers

\* C22 as stated: a response carrying the nonce of a request that is no
\* longer pending settles nothing, raises nothing, changes no session state
\* and produces no notification.
C22_LateResponseIgnored ==
    [][(op'.name = "response" /\ op'.r \notin pendingResponses)
       => (/\ SettlesNothing /\ SessionUntouched
           /\ raised' = NoErr /\ wrote' = <<>>
           /\ emitted' = <<>>)]_vars

\* C22, amended: such a response settles nothing, raises nothing and
\* changes no session state; it is passed on as one 'message' notification.
C22_LateResponseIsMessage ==
    [][(op'.name = "response" /\ op'.r \notin pendingResponses)
       => (/\ SettlesNothing /\ SessionUntouched
           /\ raised' = NoErr /\ wrote' = <<>>
           /\ emitted' = <<[ev |-> "message", n |-> op'.r,
                            arg |-> received'.cmd]>>)]_vars

\* A second response arrives for a request while another one is pending.
C22_Witness ==
    /\ op.name = "response" /\ reqs[op.r].by = "done"
    /\ received.nonce = op.r /\ received.evt = "none"
    /\ pendingResponses # {}
    /\ Len(emitted) = 1 /\ emitted[1].ev = "message"

\* ---- handshake() --------------------------------------------------------
HandshakeFails ==
    /\ raised' = ClientIdRequired
    /\ wrote' = <<>> /\ messageQueue' = messageQueue
    /\ heartbeatInterval' = heartbeatInterval

\* One opcode-0 frame is written, no request is registered.
HandshakeSends ==
    /\ raised' = NoErr
    /\ Len(wrote') = 1 /\ wrote'[1].sock = socket /\ wrote'[1].opcode = 0
    /\ wrote'[1].data = [cmd |-> "HANDSHAKE", nonce |-> 0, act |-> clientId]
    /\ messageQueue' = messageQueue
    /\ heartbeatInterval'
    /\ pendingResponses' = pendingResponses /\ Len(reqs') = Len(reqs)

\* C23 as stated: without a client identifier handshake() fails, sends and
\* queues nothing and starts no heartbeat; with one it sends exactly one
\* opcode-0 frame {v: 1, client_id} and returns without waiting.
C23_Handshake ==
    [][op'.name = "handshake"
       => IF clientId = NoClientId THEN HandshakeFails
          ELSE HandshakeSends]_vars

\* C23, amended: with a client identifier, on a connected session.
C23_HandshakeConnected ==
    [][op'.name = "handshake"
       => IF clientId = NoClientId THEN HandshakeFails
          ELSE connected => HandshakeSends]_vars

\* handshake() without a client identifier on a connected session.
C23_Witness ==
    /\ op.name = "handshake" /\ clientId = NoClientId /\ connected
    /\ raised = ClientIdRequired /\ ~heartbeatInterval

\* ---- retries ----------------------------------------------------------------
\* C24: with autoReconnect on (disconnect() never called), a session that
\* lost its connection and has used fewer than maxReconnectAttempts attempts
\* is not left disconnected with no reconnect timer armed and no connect()
\* in progress.
C24_RetriesUntilExhausted ==
    (/\ autoReconnect /\ ~connected
     /\ reconnectAttempts > 0 /\ reconnectAttempts < maxReconnectAttempts)
    => (reconnectTimers > 0 \/ connecting.reconnect > 0 \/ connecting.user > 0)

\* ---- receive(), socket errors ------------------------------------------------
\* receive(): rejected at once when not connected; otherwise a 'data'
\* listener is added to the socket and a 5 s timer is armed, which nothing
\* ever clears.
receive(S) ==
    IF ~S.connected \/ S.socket = 0
    THEN [S EXCEPT !.raised = NotConnectedError]
    ELSE [S EXCEPT !.receiveTimers = @ + 1]

\* The timer's callback: this.socket.removeListener(...), then reject.
\* With this.socket = null the first statement throws a TypeError.
receiveTimeout(S) ==
    LET S1 == [S EXCEPT !.receiveTimers = @ - 1]
    IN  IF S1.socket = 0
        THEN [S1 EXCEPT !.raised = Uncaught("TypeError")]
        ELSE [S1 EXCEPT !.raised = ReceiveTimeoutError]

\* The socket's 'error' handler: this.emit('error', error).  An emitter
\* without an 'error' listener throws the error instead.
errorHandler(S, listening) ==
    IF listening THEN emit(S, "error", 0, "socket error")
    ELSE [S EXCEPT !.raised = Uncaught("ERR_UNHANDLED_ERROR")]

Receive ==
    /\ receiveTimers < MaxReceive
    /\ Commit(receive(Task("receive", 0)))

ReceiveTimeout ==
    /\ receiveTimers > 0
    /\ Commit(receiveTimeout(Task("receiveTimeout", 0)))

SocketError ==
    \E s \in 1..Len(socks), listening \in BOOLEAN :
       /\ socks[s].st \in {"open", "ended"}
       /\ Commit(errorHandler(Task("error", s), listening))

LifecycleNext ==
    \/ Connect \/ Disconnect \/ ConnectSucceeds \/ ConnectFails
    \/ ReconnectFires \/ ReconnectSucceeds \/ ReconnectFails
    \/ SocketClose \/ SocketError \/ Receive \/ ReceiveTimeout
\* Connections and timers only: no commands, more connections.
LifecycleInit ==
    \E a \in 1..MaxAttempts :
       Start([reqs |-> 0, pending |-> 0, socks |-> MaxOpened,
              queue |-> 0, connecting |-> MaxRacing,
              attempts |-> a, delays |-> {DefaultReconnectDelay}],
             ClientIds, BOOLEAN)
LifecycleSpec == LifecycleInit /\ [][LifecycleNext]_vars

\* C25: no timer callback and no socket event handler of the engine throws
\* an exception that nothing catches.
C25_NothingUncaught == raised.kind # "uncaught"


\* ---- one connection ---------------------------------------------------------
\* Sockets that are open and carry the handlers of setupSocketHandlers.
OpenSockets == {s \in 1..Len(socks) : socks[s].st = "open"}

\* C26: at any time at most one connection of the engine is open, however
\* connect() calls of the caller and of reconnect timers overlap.
C26_OneConnection == Cardinality(OpenSockets) <= 1


\* ---- routing of inbound frames ------------------------------------------------
\* The notifications handleMessage and handleDispatch emit themselves.
Routed ==
    {i \in 1..Len(emitted) :
        emitted[i].ev \in {"ready", "error", "dispatch", "message"}}

\* The one notification a frame without a matching pending nonce gives.
RouteOf(m) ==
    IF m.cmd = "DISPATCH"
    THEN IF m.evt = "READY" THEN [ev |-> "ready", n |-> 0, arg |-> m.data]
         ELSE IF m.evt = "ERROR" THEN [ev |-> "error", n |-> 0, arg |-> m.data]
         ELSE [ev |-> "dispatch", n |-> 0, arg |-> m.evt]
    ELSE [ev |-> "message", n |-> m.nonce, arg |-> m.cmd]

\* C27: every parsed inbound frame has exactly one effect.  If its nonce
\* is a pending key the request is settled, by resolution or rejection,
\* and none of ready / error / dispatch / message is emitted; otherwise
\* nothing is settled and exactly the one notification that (cmd, evt)
\* selects is emitted.
C27_OneEffect ==
    [][op'.name \in {"response", "dispatch"}
       => LET m == received'
          IN  IF m.nonce # 0 /\ m.nonce \in pendingResponses
              THEN /\ reqs'[m.nonce].by \in {"response", "errorResponse"}
                   /\ m.nonce \notin pendingResponses'
                   /\ Routed' = {}
              ELSE /\ SettlesNothing
                   /\ emitted' = <<RouteOf(m)>>]_vars


\* ---- matching responses ---------------------------------------------------
\* C28: when an inbound frame carries a pending nonce, the request's
\* timer is cancelled (so its callback cannot reject the caller later) and
\* its entry removed; the caller is rejected with data.message if the
\* frame's evt is 'ERROR' and resolved otherwise.
C28_ResponseSettles ==
    [][(/\ op'.name \in {"response", "dispatch"}
        /\ received'.nonce # 0 /\ received'.nonce \in pendingResponses)
       => LET m == received'
              r == received'.nonce
          IN  /\ ~reqs'[r].timer
              /\ r \notin pendingResponses'
              /\ IF m.evt = "ERROR"
                 THEN /\ reqs'[r].by = "errorResponse"
                      /\ reqs'[r].err = RemoteError(m.data)
                 ELSE reqs'[r].by = "response"]_vars


\* ---- payloads that are not JSON ------------------------------------------------
\* C29: an inbound frame whose payload is not valid JSON makes the engine
\* emit an 'error' notification.
C29_BadPayloadEmitsError ==
    [][op'.name = "garbage"
       => \E i \in 1..Len(emitted') : emitted'[i].ev = "error"]_vars


\* What a garbage step does at the level of messages: nothing.
BadPayloadDropped ==
    [][op'.name = "garbage"
       => (/\ raised' = NoErr /\ emitted' = <<>> /\ wrote' = <<>>
           /\ SettlesNothing /\ SessionUntouched)]_vars

\* Frame i was written with a payload that is not JSON.
BadFrame(i) == SubSeq(sent[i].bytes, 9, Len(sent[i].bytes)) \in BadPayloads

\* C30: a frame whose payload is not JSON is dropped, and every frame that
\* has arrived completely after it, in the same chunk or a later one, has
\* been decoded and handed over, in order, with the opcode and data written.
C30_BadFrameDropped ==
    \A i \in 1..Len(sent) :
       BadFrame(i)
       => /\ i <= Len(frames) => frames[i].data = SyntaxError
          /\ \A j \in (i + 1)..Len(sent) :
                Len(Stream(j)) <= Len(Arrived)
                => /\ j <= Len(frames)
                   /\ frames[j].opcode = sent[j].opcode
                   /\ frames[j].data = sent[j].data

\* A frame that is not JSON was followed by a frame of send(); both have
\* been handed over.
C30_Witness ==
    /\ Len(sent) = 2 /\ BadFrame(1) /\ wire = <<>> /\ buffer = <<>>
    /\ Len(frames) = 2 /\ frames[1].data = SyntaxError
    /\ frames[2].data = <<"eacute", "a">> /\ frames[2].opcode = 16909060


\* ---- the retry counter -------------------------------------------------------
\* C31: reconnectAttempts stays within 0..maxReconnectAttempts, and the
\* 'close' handler schedules one retry, counting it, exactly when
\* autoReconnect is on and reconnectAttempts < maxReconnectAttempts.
C31_AttemptsBounded ==
    [][/\ reconnectAttempts' \in 0..maxReconnectAttempts'
       /\ op'.name = "close"
          => IF autoReconnect /\ reconnectAttempts < maxReconnectAttempts
             THEN /\ reconnectAttempts' = reconnectAttempts + 1
                  /\ reconnectTimers' = reconnectTimers + 1
             ELSE /\ reconnectAttempts' = reconnectAttempts
                  /\ reconnectTimers' = reconnectTimers]_vars

\* Two connections were open; the close of the first used the only
\* attempt, the close of the second has scheduled nothing.
C31_Witness ==
    /\ op.name = "close" /\ autoReconnect
    /\ reconnectAttempts = 1 /\ maxReconnectAttempts = 1
    /\ Cardinality({s \in 1..Len(socks) : socks[s].st = "closed"}) = 2
    /\ reconnectTimers = 1 /\ connecting.reconnect = 0


\* ---- failing retries -----------------------------------------------------------
\* What a retry whose connect() fails leaves alone.
RetryFailureContained ==
    [][op'.name = "reconnectFailed"
       => (/\ raised' = NoErr
           /\ reconnectTimers' = reconnectTimers
           /\ reconnectAttempts' = reconnectAttempts)]_vars

\* C32: a retry whose connect() fails is reported by a notification, throws
\* to no caller, schedules no retry and leaves reconnectAttempts as it was.
C32_RetryFailureReported ==
    [][op'.name = "reconnectFailed"
       => (/\ emitted' # <<>>
           /\ raised' = NoErr
           /\ reconnectTimers' = reconnectTimers
           /\ reconnectAttempts' = reconnectAttempts)]_vars


\* ---- a flush that meets an entry it cannot write ------------------------------
\* send(opcode, data) with data that JSON.stringify rejects.
SendCyclic ==
    /\ ~spinning /\ MayQueue(Cur)
    /\ Commit(send(Task("send", 0), 1, CyclicData))

MaxFlush == 3

FlushNext ==
    \/ Send \/ SendCyclic
    \/ Connect \/ ConnectSucceeds \/ SocketClose
    \/ Handshake \/ Authenticate \/ RemoteResponds \/ TimeoutFires \/ Spin

FlushInit ==
    Start([reqs |-> Cardinality(Nonces), pending |-> MaxPending,
           socks |-> Cardinality(Sockets), queue |-> MaxFlush,
           connecting |-> MaxConnecting, attempts |-> MaxAttempts,
           delays |-> {DefaultReconnectDelay}],
          ClientIds, BOOLEAN)

FlushSpec == FlushInit /\ [][FlushNext]_vars

HasCyclic(q) == \E k \in 1..Len(q) : q[k][2] = CyclicData
FirstCyclic(q) ==
    CHOOSE k \in 1..Len(q) :
       /\ q[k][2] = CyclicData
       /\ \A j \in 1..(k - 1) : q[j][2] # CyclicData

\* The flush of a connected session that meets an entry send() cannot write.
FlushFails ==
    /\ Emitted("authenticated")' /\ op'.name # "spin"
    /\ connected /\ HasCyclic(messageQueue)

\* What such a flush does: the entries before the failing one are written
\* in order, the failing entry is gone, and the entries behind it stay.
FlushDropsFailedEntry ==
    [][FlushFails
       => LET k == FirstCyclic(messageQueue)
          IN  /\ messageQueue' = SubSeq(messageQueue, k + 1, Len(messageQueue))
              /\ Len(wrote') = k - 1
              /\ \A i \in 1..(k - 1) : Written(i)' = Frame(messageQueue[i])]_vars

\* C33: when writing an entry fails during a flush, the flush stops and the
\* failing entry and all entries behind it are still in the queue, in their
\* original order; the entries before it have been written.
C33_FailedEntryKept ==
    [][FlushFails
       => LET k == FirstCyclic(messageQueue)
          IN  /\ messageQueue' = SubSeq(messageQueue, k, Len(messageQueue))
              /\ Len(wrote') = k - 1
              /\ \A i \in 1..(k - 1) : Written(i)' = Frame(messageQueue[i])]_vars


\* ---- authenticated sessions -----------------------------------------------------
\* C34: authenticated = true only while connected = true, in every state.
C34_AuthenticatedIsConnected == authenticated => connected


\* ---- termination of the flush -----------------------------------------------------
\* C35: processQueue terminates from every state in which authenticate()
\* invokes it: no state has it in a loop that cannot end.
C35_FlushTerminates == ~spinning


\* ---- a command that send() refuses ------------------------------------------------
\* C36: sendCommand called while connected = false and autoReconnect is
\* disabled rejects its caller with the 'not connected' error and leaves
\* neither an entry for its nonce in pendingResponses nor its timer armed.
C36_RefusedCommandLeavesNothing ==
    [][(op'.name = "sendCommand" /\ ~connected /\ ~autoReconnect)
       => LET r == op'.r
          IN  /\ raised' = NotConnectedError
              /\ r \notin pendingResponses'
              /\ ~reqs'[r].timer]_vars


\* ---- connected and the socket held ------------------------------------------------
\* C37: connected = true exactly when the socket the engine holds is open,
\* and while a newer connection is held the 'close' event of a socket the
\* engine no longer holds changes neither connected nor authenticated,
\* leaves the heartbeat timer running and schedules no reconnect.
C37_ConnectedIsSocketOpen ==
    [][/\ connected' <=> (socket' # 0 /\ socks'[socket'].st = "open")
       /\ (op'.name = "close" /\ op'.r # socket /\ connected)
          => /\ connected' = connected
             /\ authenticated' = authenticated
             /\ heartbeatInterval' = heartbeatInterval
             /\ reconnectTimers' = reconnectTimers]_vars


\* ---- frames of calls that are over ------------------------------------------------
\* The call with nonce n is pending when the task writes its frame: it is
\* made by the task, or it was pending before the task and the task is not
\* the timeout or the response that settles it before the flush.
PendingWhenWritten(n) ==
    \/ n > Len(reqs)
    \/ /\ reqs[n].by = "none"
       /\ ~(op'.name \in {"timeout", "response"} /\ op'.r = n)

\* C38: every command frame written to a socket belongs to a call that is
\* still pending when it is written; the queued frame of a call that was
\* rejected by its timeout is not written by a later flush.
C38_NoFrameOfSettledCall ==
    [][op'.name # "spin"
       => \A i \in 1..Len(wrote') :
             wrote'[i].data.nonce # 0
             => PendingWhenWritten(wrote'[i].data.nonce)]_vars


\* ---- 'disconnect' notifications ---------------------------------------------------
EmittedTimes(ev) == Cardinality({i \in 1..Len(emitted) : emitted[i].ev = ev})

\* C39: a step that takes connected from true to false emits 'disconnect'
\* exactly once, and the 'close' event of the socket that disconnect()
\* ended, arriving on the disconnected engine, emits no second one.
C39_OneDisconnectPerTransition ==
    [][/\ (op'.name # "spin" /\ connected /\ ~connected')
          => EmittedTimes("disconnect")' = 1
       /\ (op'.name = "close" /\ socks[op'.r].st = "ended" /\ ~connected)
          => EmittedTimes("disconnect")' = 0]_vars

\* What holds: every step that takes connected from true to false emits
\* 'disconnect' exactly once.
DisconnectEmittedOnTransition ==
    [][(op'.name # "spin" /\ connected /\ ~connected')
       => EmittedTimes("disconnect")' = 1]_vars

====
